---- MODULE Spec2Model ----
(***************************************************************************)
(* Model of demos/pvc.py: the orchestration of a 1D monodomain simulation  *)
(* (parameter-array construction, the fixed-step time loop with its        *)
(* checkpoint store) and the post-processing of the stored voltage traces. *)
(*                                                                         *)
(* The loop variable t of run() is an IEEE-754 binary64 value that is      *)
(* advanced by t += dt.  It is modelled exactly: a non-negative double is  *)
(* the natural number of units 2^-92 it is worth, held as NumLimbs         *)
(* little-endian limbs in base 2^24, and every addition rounds to 53       *)
(* significant bits, ties to even.                                         *)
(*                                                                         *)
(* The solver objects (pre-pacing, stimulus, PDE and ODE solvers) are      *)
(* opaque collaborators: of solver.step only the interval it is called     *)
(* with and whether it returns or raises are modelled, and a snapshot is   *)
(* identified by the execution and the step count it was written at.  The  *)
(* Time value of a snapshot is written as text that float() reads back to  *)
(* the same binary64.  Finite activation times are pint quantities in ms;  *)
(* the trace table and the plot of post_process hold no state that the     *)
(* properties below read and are left out.                                 *)
(***************************************************************************)
EXTENDS Integers, Sequences, FiniteSets, TLC

-----------------------------------------------------------------------------
(* Bounds of the model.                                                    *)

\* end_time is drawn from EndTimes (whole milliseconds); the source fixes 5000.0
MaxEndTime == 25

\* number of times the script is executed on the same output directory
MaxRuns == 2

\* mesh cells of the fiber (the source uses 200)
NumCells == 4

\* snapshots of a checkpoint store handed to post_process
MaxSnaps == 3

-----------------------------------------------------------------------------
(* binary64 arithmetic on non-negative values                              *)

LimbBits == 24

NumLimbs == 5

\* exponent of the unit: a limb vector a is worth a * 2^-FracBits
FracBits == 92

\* significant bits of a binary64
MantBits == 53

RECURSIVE Pow2(_)
Pow2(k) == IF k = 0 THEN 1 ELSE 2 * Pow2(k - 1)

Base == Pow2(LimbBits)

Limbs == 1..NumLimbs

Zero == [n \in Limbs |-> 0]

\* the limb vector of 2^k units
Pow2Limbs(k) == [n \in Limbs |-> IF n - 1 = k \div LimbBits THEN Pow2(k % LimbBits) ELSE 0]

\* the double of a small non-negative integer (exact)
FromInt(m) ==
  [n \in Limbs |->
     IF n - 1 = FracBits \div LimbBits
       THEN (m % Pow2(LimbBits - (FracBits % LimbBits))) * Pow2(FracBits % LimbBits)
     ELSE IF n - 1 = FracBits \div LimbBits + 1
       THEN m \div Pow2(LimbBits - (FracBits % LimbBits))
     ELSE 0]

RECURSIVE Carry(_, _, _)
Carry(a, b, n) == IF n = 0 THEN 0 ELSE (a[n] + b[n] + Carry(a, b, n - 1)) \div Base

\* exact sum of two limb vectors
BAdd(a, b) == [n \in Limbs |-> (a[n] + b[n] + Carry(a, b, n - 1)) % Base]

RECURSIVE LessFrom(_, _, _)
LessFrom(a, b, n) ==
  IF n = 0 THEN FALSE
  ELSE IF a[n] # b[n] THEN a[n] < b[n]
  ELSE LessFrom(a, b, n - 1)

\* a < b
FLess(a, b) == LessFrom(a, b, NumLimbs)

RECURSIVE BitLenInt(_)
BitLenInt(x) == IF x = 0 THEN 0 ELSE 1 + BitLenInt(x \div 2)

RECURSIVE TopLimb(_, _)
TopLimb(a, n) == IF n = 0 THEN 0 ELSE IF a[n] # 0 THEN n ELSE TopLimb(a, n - 1)

\* number of significant bits of a
BitLen(a) ==
  LET h == TopLimb(a, NumLimbs)
  IN  IF h = 0 THEN 0 ELSE LimbBits * (h - 1) + BitLenInt(a[h])

\* bit j of a
Bit(a, j) == (a[j \div LimbBits + 1] \div Pow2(j % LimbBits)) % 2

\* some bit of a below bit j is set
LowNonZero(a, j) ==
  \/ \E n \in Limbs : n - 1 < j \div LimbBits /\ a[n] # 0
  \/ a[j \div LimbBits + 1] % Pow2(j % LimbBits) # 0

\* a with the bits below bit k cleared
Truncate(a, k) ==
  [n \in Limbs |->
     IF n - 1 < k \div LimbBits THEN 0
     ELSE IF n - 1 = k \div LimbBits THEN a[n] - (a[n] % Pow2(k % LimbBits))
     ELSE a[n]]

\* round to nearest binary64, ties to even
RoundNearestEven(a) ==
  LET k == BitLen(a) - MantBits
  IN  IF k <= 0 THEN a
      ELSE IF Bit(a, k - 1) = 1 /\ (LowNonZero(a, k - 1) \/ Bit(a, k) = 1)
        THEN BAdd(Truncate(a, k), Pow2Limbs(k))
      ELSE Truncate(a, k)

\* the binary64 sum a + b
FAdd(a, b) == RoundNearestEven(BAdd(a, b))

-----------------------------------------------------------------------------
(* Constants of the script                                                 *)

\* dt = 0.01, the binary64 0x1.47ae147ae147bp-7
dt == <<0, 2684416, 12750684, 10485, 0>>

\* 1 / dt for the decimal dt = 0.01 (steps per millisecond)
StepsPerMs == 100

\* save_freq = int(1.0 / dt); the binary64 quotient 1.0 / dt is 100.0
save_freq == 100

\* the loop tolerance 1e-12, the binary64 0x1.19799812dea11p-40
Tolerance == <<3009041, 9935233, 17, 0, 0>>

\* end_time values of the model, in whole milliseconds
EndTimes == {1, MaxEndTime}

\* parameter values are held in thousandths; the C++ bool true converts to 1.0
TrueAsDouble == 1000

\* names of the parameters of the cell model, in index order
ParamNames == <<"stim_amplitude", "g_Kr", "g_Ks", "g_to">>

ParamRows == 1..Len(ParamNames)

\* degrees of freedom of the P1 space on the interval mesh: the nodes 0..NumCells,
\* the node d lying at x = d * dx
Dofs == 0..NumCells

\* default parameter vectors of the cell models the script is run with: the
\* values of the Tentusscher-Panfilov model (stim_amplitude 52, g_Kr 0.153,
\* g_Ks 0.392, g_to 0.294) and a model with g_Kr = 0 and g_Ks = 1
ModelDefaults == { <<52000, 153, 392, 294>>, <<52000, 0, 1000, 294>> }

\* dx = 0.015 cm, as the fraction DxNum / DxDen
DxNum == 15

DxDen == 1000

\* probe positions p1 = 25 * dx, p2 = 175 * dx and their distance dp = 150 * dx
P1Cells == 25

P2Cells == 175

DpCells == 150

\* unit registry: centimetres per metre, milliseconds per second
CmPerM == 100

MsPerS == 1000

\* np.isclose defaults rtol = 1e-05, atol = 1e-08, as multiples of 1e-08
RtolUnits == 1000

AtolUnits == 1

IsCloseScale == 100000000

\* voltages (mV) a probe can show in a snapshot
ProbeValues == {-85, 0, 20}

\* end_time values of the executions that are post-processed
PostEndTimes == 1..(MaxSnaps - 1)

\* a file that does not exist
Missing == [exists |-> FALSE, elems |-> <<>>]

-----------------------------------------------------------------------------
VARIABLES
  pc,              \* position of the script
  run,             \* number of the current execution of the script
  model,           \* default parameter vector of the cell model
  traveling_wave,  \* argument of run()
  end_time,        \* end time of the loop, in ms
  parameters,      \* global parameter vector of run()
  parameters_ode,  \* per-node parameter array, <<>> before it is built
  t,               \* loop time, a binary64
  i,               \* loop step count
  lastStep,        \* interval of the latest solver.step call, <<>> if none
  fs,              \* the files V.xdmf and V.h5 of the output directory
  times,           \* post_process: result of load_timesteps_from_xdmf
  probeV,          \* post_process: voltage at the probes p1, p2 in each snapshot
  idx,             \* post_process: loop position
  tp1,             \* post_process: activation time at p1
  tp2,             \* post_process: activation time at p2
  cv               \* post_process: outcome of the conduction velocity block

vars == <<pc, run, model, traveling_wave, end_time, parameters, parameters_ode,
          t, i, lastStep, fs, times, probeV, idx, tp1, tp2, cv>>

runVars == <<pc, run, model, traveling_wave, end_time, parameters, parameters_ode,
             t, i, lastStep, fs>>

postVars == <<times, probeV, idx, tp1, tp2, cv>>

\* np.inf
Inf == [inf |-> TRUE, val |-> 0]

Finite(k) == [inf |-> FALSE, val |-> k]

\* the conduction velocity block was not reached or not entered
NoCv == [status |-> "none", cm_ms |-> [num |-> 0, den |-> 1], m_s |-> [num |-> 0, den |-> 1]]

-----------------------------------------------------------------------------
(* run(): parameter array                                                  *)

\* model["parameter_index"](name)
parameter_index(name) == CHOOSE k \in ParamRows : ParamNames[k] = name

\* model["init_parameter_values"](...): the defaults, stim_amplitude overridden
\* when the stimulus is applied through the boundary term instead
init_parameter_values(defaults, zeroStim) ==
  IF zeroStim THEN [defaults EXCEPT ![parameter_index("stim_amplitude")] = 0]
  ELSE defaults

\* faulty variant of Broadcast: the array is left as np.zeros made it
BroadcastZeros(params) == [r \in ParamRows |-> [d \in Dofs |-> 0]]

\* parameters_ode = np.zeros(...); parameters_ode.T[:] = parameters
Broadcast(params) == [r \in ParamRows |-> [d \in Dofs |-> params[r]]]

\* the C++ expression "g ? x[0] > L / 2 : 0.0" at the node d, where x = d * dx
\* and L = NumCells * dx: the conditional tests g, its value is the comparison
HeterogeneityExpr(g, d) ==
  IF g # 0 THEN (IF 2 * d > NumCells THEN TrueAsDouble ELSE 0) ELSE 0

\* dolfin.interpolate(Expression, V_ode).vector().get_local()
Interpolate(g) == [d \in Dofs |-> HeterogeneityExpr(g, d)]

\* parameters_ode[index, :] = interpolate(...) for g_Kr, then for g_Ks
BuildParametersOde(params) ==
  LET g_Kr_index == parameter_index("g_Kr")
      g_Ks_index == parameter_index("g_Ks")
      p0 == Broadcast(params)
      p1 == [p0 EXCEPT ![g_Kr_index] = Interpolate(params[g_Kr_index])]
  IN  [p1 EXCEPT ![g_Ks_index] = Interpolate(params[g_Ks_index])]

-----------------------------------------------------------------------------
(* run(): checkpoint store                                                 *)

\* faulty variant of delete_old_file: the companion V.h5 is not removed
delete_xdmf_only(f) == [f EXCEPT !.xdmf = Missing]

\* delete_old_file(fname): unlink(missing_ok=True) of V.xdmf and of V.h5
delete_old_file(f) == [xdmf |-> Missing, h5 |-> Missing]

\* xdmf.write_checkpoint(state, "V", float(t), HDF5, append=True): a Grid
\* element with its Time child in V.xdmf, the field data in V.h5; step and
\* run record which solver state the snapshot holds
write_checkpoint(f, time, step, r) ==
  [xdmf |-> [exists |-> TRUE,
             elems |-> f.xdmf.elems \o
                       << [tag |-> "Grid", Value |-> <<>>, run |-> r, step |-> step],
                          [tag |-> "Time", Value |-> time, run |-> r, step |-> step] >>],
   h5   |-> [exists |-> TRUE,
             elems |-> Append(f.h5.elems, [run |-> r, step |-> step])]]

\* faulty variant of ShouldSave: the save is due after the step, not before
ShouldSaveAfterStep(step) == (step + 1) % save_freq = 0

\* the condition of the save: i % save_freq == 0
ShouldSave(step) == step % save_freq = 0

\* faulty variant of LoopCondition: t < end_time, without the tolerance
LoopConditionNoTolerance(time, e) == FLess(time, FromInt(e))

\* the loop condition: t < end_time + 1e-12
LoopCondition(time, e) == FLess(time, FAdd(FromInt(e), Tolerance))

\* the second component of the interval passed to solver.step: t + dt
StepEnd(time) == FAdd(time, dt)

\* faulty variant of NextTime: t += 2 * dt
NextTimeTwice(time) == FAdd(time, FAdd(dt, dt))

\* t += dt
NextTime(time) == FAdd(time, dt)

-----------------------------------------------------------------------------
(* The script: run(mesh, L, outdir, dx, model, traveling_wave)             *)

\* the state when the script starts, end_time being one of ends
InitWith(ends) ==
  /\ pc = "start"
  /\ run = 1
  /\ model \in ModelDefaults
  /\ traveling_wave \in BOOLEAN
  /\ end_time \in ends
  /\ parameters = <<>>
  /\ parameters_ode = <<>>
  /\ t = Zero
  /\ i = 0
  /\ lastStep = <<>>
  /\ fs = [xdmf |-> Missing, h5 |-> Missing]
  /\ times = <<>>
  /\ probeV = <<>>
  /\ idx = 0
  /\ tp1 = Inf
  /\ tp2 = Inf
  /\ cv = NoCv

Init == InitWith(EndTimes)

\* lines 47-129: the parameter vector and the per-node parameter array
BuildParameters ==
  /\ pc = "start"
  /\ parameters' = init_parameter_values(model, traveling_wave)
  /\ parameters_ode' = BuildParametersOde(parameters')
  /\ pc' = "delete"
  /\ UNCHANGED <<run, model, traveling_wave, end_time, t, i, lastStep, fs>>
  /\ UNCHANGED postVars

\* lines 131-151: the old store is removed, the loop variables are set
DeleteOld ==
  /\ pc = "delete"
  /\ fs' = delete_old_file(fs)
  /\ t' = Zero
  /\ i' = 0
  /\ pc' = "loop"
  /\ UNCHANGED <<run, model, traveling_wave, end_time, parameters, parameters_ode, lastStep>>
  /\ UNCHANGED postVars

\* lines 152-156: the loop condition holds; save(t) when the step count is due
LoopSave ==
  /\ pc = "loop"
  /\ LoopCondition(t, end_time)
  /\ fs' = IF ShouldSave(i) THEN write_checkpoint(fs, t, i, run) ELSE fs
  /\ pc' = "step"
  /\ UNCHANGED <<run, model, traveling_wave, end_time, parameters, parameters_ode,
                 t, i, lastStep>>
  /\ UNCHANGED postVars

\* lines 158-160: solver.step((t, t + dt)) returns; i += 1; t += dt
StepOk ==
  /\ pc = "step"
  /\ lastStep' = <<t, StepEnd(t)>>
  /\ i' = i + 1
  /\ t' = NextTime(t)
  /\ pc' = "loop"
  /\ UNCHANGED <<run, model, traveling_wave, end_time, parameters, parameters_ode, fs>>
  /\ UNCHANGED postVars

\* line 158: solver.step raises; the exception is not caught
StepFail ==
  /\ pc = "step"
  /\ pc' = "aborted"
  /\ UNCHANGED <<run, model, traveling_wave, end_time, parameters, parameters_ode,
                 t, i, lastStep, fs>>
  /\ UNCHANGED postVars

\* line 152: the loop condition fails, run() returns
LoopExit ==
  /\ pc = "loop"
  /\ ~LoopCondition(t, end_time)
  /\ pc' = "done"
  /\ UNCHANGED <<run, model, traveling_wave, end_time, parameters, parameters_ode,
                 t, i, lastStep, fs>>
  /\ UNCHANGED postVars

\* the script is executed again on the same output directory: the memory of
\* the process is fresh, the files are those the previous execution left
Rerun ==
  /\ pc \in {"done", "aborted"}
  /\ run < MaxRuns
  /\ run' = run + 1
  /\ pc' = "start"
  /\ parameters' = <<>>
  /\ parameters_ode' = <<>>
  /\ t' = Zero
  /\ i' = 0
  /\ lastStep' = <<>>
  /\ UNCHANGED <<model, traveling_wave, end_time, fs>>
  /\ UNCHANGED postVars

Next ==
  \/ BuildParameters
  \/ DeleteOld
  \/ LoopSave
  \/ StepOk
  \/ StepFail
  \/ LoopExit
  \/ Rerun

Spec == Init /\ [][Next]_vars

-----------------------------------------------------------------------------
(* post_process(mesh, dx, outdir)                                          *)

RECURSIVE TimeValues(_)
\* the Value attributes of the Time elements of the document, in document order
TimeValues(elems) ==
  IF elems = <<>> THEN <<>>
  ELSE IF Head(elems).tag = "Time"
    THEN <<Head(elems).Value>> \o TimeValues(Tail(elems))
  ELSE TimeValues(Tail(elems))

\* load_timesteps_from_xdmf: the dict {0: v0, 1: v1, ...}
load_timesteps_from_xdmf(file) ==
  LET vs == TimeValues(file.elems)
  IN  [k \in 0..(Len(vs) - 1) |-> vs[k + 1]]

\* the idx-th item of enumerate(times): iterating a dict yields its keys,
\* in insertion order
DictItem(d, n) == n

\* "if V(p) > 0.0 and tp == np.inf: tp = ti * ureg('ms')"
Activation(tp, v, ti) == IF v > 0 /\ tp = Inf THEN Finite(ti) ELSE tp

Abs(x) == IF x < 0 THEN -x ELSE x

\* faulty variant of IsClose: inf - inf is nan, so no infinity is close to anything
IsCloseNoInf(a, b) ==
  IF a.inf \/ b.inf THEN FALSE
  ELSE Abs(a.val - b.val) * IsCloseScale <= AtolUnits + RtolUnits * Abs(b.val)

\* np.isclose(a, b): equal infinities are close, an infinity is close to nothing
\* else, finite values when |a - b| <= atol + rtol * |b|
IsClose(a, b) ==
  IF a.inf \/ b.inf THEN a.inf /\ b.inf
  ELSE Abs(a.val - b.val) * IsCloseScale <= AtolUnits + RtolUnits * Abs(b.val)

RECURSIVE Gcd(_, _)
Gcd(a, b) == IF b = 0 THEN a ELSE Gcd(b, a % b)

\* a fraction in lowest terms with a positive denominator
Fraction(n, d) ==
  LET g == Gcd(Abs(n), Abs(d))
      sgn == IF d < 0 THEN -1 ELSE 1
  IN  [num |-> sgn * (n \div g), den |-> sgn * (d \div g)]

\* dp = 150 * dx * ureg("cm")
ProbeDistance == Fraction(DpCells * DxNum, DxDen)

\* faulty variant of ConductionVelocity: dp / (tp1 - tp2)
ConductionVelocityReversed(dp, a, b) == Fraction(dp.num, dp.den * (a - b))

\* cv = dp / (tp2 - tp1) for finite times, in cm / ms
ConductionVelocity(dp, a, b) == Fraction(dp.num, dp.den * (b - a))

\* cv.to("m/s").magnitude of a velocity in cm / ms
ToMetersPerSecond(q) == Fraction(q.num * MsPerS, q.den * CmPerM)

\* lines 178-191: the stored times are loaded, tp1 = tp2 = inf.  probeV is the
\* voltage at p1 and p2 that read_checkpoint will find in each snapshot
PostLoad ==
  /\ pc = "done"
  /\ times' = load_timesteps_from_xdmf(fs.xdmf)
  /\ probeV' \in [DOMAIN times' -> ProbeValues \X ProbeValues]
  /\ idx' = 0
  /\ tp1' = Inf
  /\ tp2' = Inf
  /\ cv' = NoCv
  /\ pc' = "post_loop"
  /\ UNCHANGED <<run, model, traveling_wave, end_time, parameters, parameters_ode,
                 t, i, lastStep, fs>>

\* lines 193-201: one iteration of "for i, ti in enumerate(times)"
PostRead ==
  /\ pc = "post_loop"
  /\ idx < Cardinality(DOMAIN times)
  /\ LET ti == DictItem(times, idx)
     IN  /\ tp1' = Activation(tp1, probeV[ti][1], ti)
         /\ tp2' = Activation(tp2, probeV[ti][2], ti)
  /\ idx' = idx + 1
  /\ UNCHANGED <<times, probeV, cv>>
  /\ UNCHANGED runVars

\* lines 203-208, the times are close: nothing is computed
PostSkipCv ==
  /\ pc = "post_loop"
  /\ idx = Cardinality(DOMAIN times)
  /\ IsClose(tp1, tp2)
  /\ pc' = "post_done"
  /\ UNCHANGED <<run, model, traveling_wave, end_time, parameters, parameters_ode,
                 t, i, lastStep, fs>>
  /\ UNCHANGED postVars

\* lines 203-208, both times finite and not close: cv is computed and printed
PostReportCv ==
  /\ pc = "post_loop"
  /\ idx = Cardinality(DOMAIN times)
  /\ ~IsClose(tp1, tp2)
  /\ ~tp1.inf /\ ~tp2.inf
  /\ LET q == ConductionVelocity(ProbeDistance, tp1.val, tp2.val)
     IN  cv' = [status |-> "reported", cm_ms |-> q, m_s |-> ToMetersPerSecond(q)]
  /\ pc' = "post_done"
  /\ UNCHANGED <<run, model, traveling_wave, end_time, parameters, parameters_ode,
                 t, i, lastStep, fs>>
  /\ UNCHANGED <<times, probeV, idx, tp1, tp2>>

\* lines 203-208, one time is a quantity in ms and the other the bare float
\* inf: the times are not close, and an operation on the mixed operands
\* (np.isclose on them, or tp2 - tp1) raises the unit registry's
\* DimensionalityError, which is not caught; nothing is printed
PostMixedRaise ==
  /\ pc = "post_loop"
  /\ idx = Cardinality(DOMAIN times)
  /\ ~IsClose(tp1, tp2)
  /\ tp1.inf \/ tp2.inf
  /\ cv' = [status |-> "raised", cm_ms |-> Fraction(0, 1), m_s |-> Fraction(0, 1)]
  /\ pc' = "post_failed"
  /\ UNCHANGED <<run, model, traveling_wave, end_time, parameters, parameters_ode,
                 t, i, lastStep, fs>>
  /\ UNCHANGED <<times, probeV, idx, tp1, tp2>>

\* the script: run(...) followed by post_process(...)
InitPost == InitWith(PostEndTimes)

NextPost ==
  \/ BuildParameters
  \/ DeleteOld
  \/ LoopSave
  \/ StepOk
  \/ StepFail
  \/ LoopExit
  \/ PostLoad
  \/ PostRead
  \/ PostSkipCv
  \/ PostReportCv
  \/ PostMixedRaise

SpecPost == InitPost /\ [][NextPost]_vars

-----------------------------------------------------------------------------
(* Properties                                                              *)

\* the Time elements of V.xdmf, in stored order
Snapshots == SelectSeq(fs.xdmf.elems, LAMBDA e : e.tag = "Time")

\* the per-node parameter array exists
Built == parameters_ode # <<>>

\* the rows of the two heterogeneity-controlled parameters
HeterogeneousRows == {parameter_index("g_Kr"), parameter_index("g_Ks")}

\* the bound of the loop condition, end_time + 1e-12
LoopLimit == FAdd(FromInt(end_time), Tolerance)

\* end_time / dt for the decimal dt
NominalSteps == end_time * StepsPerMs

\* C1 (as claimed): once built, the g_Kr and g_Ks rows of parameters_ode hold,
\* at every node, the nominal value of the parameter if the node lies at
\* x > L/2 and 0 otherwise.
C1_RowsHoldNominalOrZero ==
  Built =>
    \A r \in HeterogeneousRows : \A d \in Dofs :
      parameters_ode[r][d] = IF 2 * d > NumCells THEN parameters[r] ELSE 0

\* C5: once built, every column of parameters_ode equals the global parameter
\* vector in all rows but those of g_Kr and g_Ks, and the array is not modified
\* again for the rest of the execution (in particular not by the time loop).
C5_ColumnsCopyParameters ==
  /\ [](Built =>
          \A r \in ParamRows \ HeterogeneousRows : \A d \in Dofs :
            parameters_ode[r][d] = parameters[r])
  /\ [][(Built /\ pc' # "start") => parameters_ode' = parameters_ode]_vars

C5_Witness ==
  /\ pc = "done"
  /\ i > save_freq
  /\ Built
  /\ \E r \in HeterogeneousRows : \E d \in Dofs : parameters_ode[r][d] # parameters[r]

\* C2: from the moment the old files are removed, the store (V.xdmf and V.h5)
\* holds only snapshots written by the current execution; both files are absent
\* when the loop is entered, before the first write_checkpoint.
C2_StoreHoldsOnlyThisRun ==
  /\ (pc \in {"loop", "step", "done", "aborted"} =>
        /\ \A k \in 1..Len(fs.xdmf.elems) : fs.xdmf.elems[k].run = run
        /\ \A k \in 1..Len(fs.h5.elems) : fs.h5.elems[k].run = run)
  /\ (pc = "loop" /\ i = 0 => ~fs.xdmf.exists /\ ~fs.h5.exists)

C2_Witness ==
  /\ run = 2
  /\ pc = "done"
  /\ Len(Snapshots) > 1
  /\ Len(fs.h5.elems) = Len(Snapshots)

\* C3 (as claimed): after a complete run the store holds
\* floor(end_time / (save_freq * dt)) + 1 snapshots, the k-th written at step
\* count (k - 1) * save_freq, the first labelled t = 0.
C3_SnapshotCount ==
  pc = "done" =>
    /\ Len(Snapshots) = NominalSteps \div save_freq + 1
    /\ \A k \in 1..Len(Snapshots) : Snapshots[k].step = (k - 1) * save_freq
    /\ Snapshots[1].Value = Zero

\* C4: every solver.step((a, b)) has b = a + dt and a < b; the first interval
\* starts at 0 and every later one starts where the previous one ended.
C4_StepIntervalsContiguous ==
  [][(pc = "step" /\ pc' = "loop") =>
       /\ lastStep'[2] = FAdd(lastStep'[1], dt)
       /\ FLess(lastStep'[1], lastStep'[2])
       /\ (lastStep = <<>> => lastStep'[1] = Zero)
       /\ (lastStep # <<>> => lastStep'[1] = lastStep[2])]_vars

\* a third step call is due, after additions that were rounded
C4_Witness ==
  /\ pc = "step"
  /\ i > save_freq
  /\ lastStep # <<>>
  /\ i % save_freq = 0
  /\ t # FromInt(i \div save_freq)

\* C9 (as claimed): the intervals passed to solver.step cover exactly
\* [0, end_time]: end_time / dt calls, the last one ending at end_time.
C9_StepsCoverExactlyEndTime ==
  pc = "done" =>
    /\ i = NominalSteps
    /\ lastStep[2] = FromInt(end_time)

\* C9 (amended): every step interval starts below end_time + 1e-12, and when
\* the loop is left the last interval ends at or beyond end_time + 1e-12 (at
\* most dt beyond it), after end_time / dt or end_time / dt + 1 calls.
C9_StepsRunPastEndTime ==
  /\ (lastStep # <<>> => FLess(lastStep[1], LoopLimit))
  /\ (pc = "done" =>
        /\ ~FLess(lastStep[2], LoopLimit)
        /\ ~FLess(FAdd(LoopLimit, dt), lastStep[2])
        /\ FLess(FromInt(end_time), lastStep[2])
        /\ i \in {NominalSteps, NominalSteps + 1})

C9_Witness ==
  /\ pc = "done"
  /\ i = NominalSteps + 1
  /\ ~FLess(lastStep[1], FromInt(end_time))

\* C10: when solver.step fails at step count i the run stops: the store holds
\* exactly the snapshots of this run for the step counts 0, save_freq, ... up
\* to i, and nothing steps or saves any more (only a new execution follows).
C10_AbortKeepsCheckpoints ==
  /\ [](pc = "aborted" =>
          /\ Len(Snapshots) = i \div save_freq + 1
          /\ Len(fs.h5.elems) = Len(Snapshots)
          /\ \A k \in 1..Len(Snapshots) :
               /\ Snapshots[k].step = (k - 1) * save_freq
               /\ Snapshots[k].run = run
               /\ fs.h5.elems[k] = [run |-> run, step |-> (k - 1) * save_freq])
  /\ [][pc = "aborted" => /\ fs' = fs
                          /\ pc' \in {"aborted", "start"}
                          /\ lastStep' \in {lastStep, <<>>}]_vars

C10_Witness ==
  /\ pc = "aborted"
  /\ i > 2 * save_freq
  /\ i % save_freq # 0
  /\ Len(Snapshots) = 3

\* post_process has ended
PostEnded == pc \in {"post_done", "post_failed"}

\* the snapshots, by index, in which the voltage at probe j is > 0
Positive(j) == {k \in DOMAIN probeV : probeV[k][j] > 0}

Earliest(S) == CHOOSE k \in S : \A m \in S : k <= m

\* what the claim C8 takes the activation time at probe j to be: the stored
\* time value of the first snapshot with a voltage > 0 there, else inf
StoredActivationTime(j) ==
  IF Positive(j) = {} THEN <<>> ELSE times[Earliest(Positive(j))]

\* the activation time post_process recorded, as a binary64 (<<>> for inf)
RecordedTime(tp) == IF tp.inf THEN <<>> ELSE FromInt(tp.val)

\* C6: a conduction velocity is reported only if the two activation times
\* differ.  When they are equal (both finite, or both inf) the guard skips the
\* block and post_process goes on; when the wave never reached one of the two
\* probes no velocity is reported either; two different finite times are
\* reported.
C6_VelocityOnlyIfTimesDiffer ==
  PostEnded =>
    /\ (cv.status = "reported" => tp1 # tp2)
    /\ (tp1 = tp2 => cv.status = "none" /\ pc = "post_done")
    /\ (tp1.inf \/ tp2.inf => cv.status # "reported")
    /\ (tp1 # tp2 /\ ~tp1.inf /\ ~tp2.inf => cv.status = "reported")

C6_Witness ==
  /\ pc = "post_done"
  /\ cv.status = "none"
  /\ tp1.inf /\ tp2.inf
  /\ idx > 1

\* C7: a reported conduction velocity is the probe distance 150 * dx = 2.25 cm
\* divided by tp2 - tp1, in cm/ms, and ten times that number in m/s; for
\* tp1 = 105 ms and tp2 = 115 ms it is 0.225 cm/ms = 2.25 m/s.
C7_VelocityIsDistanceOverTime ==
  /\ ProbeDistance = Fraction(225, 100)
  /\ ProbeDistance = Fraction((P2Cells - P1Cells) * DxNum, DxDen)
  /\ (pc = "post_done" /\ cv.status = "reported" /\ ~tp1.inf /\ ~tp2.inf =>
        /\ Fraction(cv.cm_ms.num * (tp2.val - tp1.val), cv.cm_ms.den) = Fraction(225, 100)
        /\ cv.m_s = Fraction(10 * cv.cm_ms.num, cv.cm_ms.den))
  /\ ConductionVelocity(ProbeDistance, 105, 115) = Fraction(225, 1000)
  /\ ToMetersPerSecond(ConductionVelocity(ProbeDistance, 105, 115)) = Fraction(225, 100)

C7_Witness ==
  /\ pc = "post_done"
  /\ cv.status = "reported"
  /\ ~tp1.inf /\ ~tp2.inf
  /\ tp2.val > tp1.val + 1

\* C8 (as claimed): the activation time recorded for each probe is the stored
\* time value of the first snapshot whose voltage at the probe is > 0, and inf
\* if there is none.
C8_ActivationIsStoredTime ==
  PostEnded =>
    /\ RecordedTime(tp1) = StoredActivationTime(1)
    /\ RecordedTime(tp2) = StoredActivationTime(2)

====
